---- MODULE Spec2Model ----
(***************************************************************************)
(* RA.co event monitor: the ingestion / deduplication / notification       *)
(* pipeline of EventMonitor (eventFetcher.js, second module), with the     *)
(* Database (database.js) as the ledger, EventFetcher as the paginated     *)
(* Source client and NotificationService as the Pushover transport.        *)
(*                                                                         *)
(* Dates are day numbers: the code compares the ISO strings of events.date *)
(* with the two ISO strings of getDateRange by SQL BETWEEN, which is the   *)
(* inclusive order comparison modelled here.                               *)
(***************************************************************************)
EXTENDS Integers, Sequences, FiniteSets, TLC

\* ------------------------------------------------------------------ bounds
MaxRuns == 2          \* runs started in one behaviour
MaxPages == 2         \* non-empty pages the Source serves for one fetch
MaxDay == 2           \* last day the clock reaches
DateRangeDays == 1    \* config.notificationSettings.dateRangeDays
MaxSaves == 2         \* saveEvent calls of SpecStore
MaxMarks == 1         \* markNotificationSent calls of SpecStore
OverlapPages == 1     \* non-empty pages of one fetch while two checks overlap
MaxListing == 3       \* pages the Source holds for a call of the fetcher on its own
MaxLimit == 2         \* largest maxPages of fetchEventsWithPageLimit
FirstDay == 1         \* the day the process starts

\* ------------------------------------------------------------------ inputs
ArtistIds == {"a1", "a2"}
EventIds == {"e1", "e2"}
EventDates == {0, 2}
LocationAreaId == "13"
Areas == {"13", "34"}
IncludePastDay == TRUE

\* the names config.json gives the artists
NameOf == [a \in ArtistIds |-> IF a = "a1" THEN "Ann" ELSE "Bob"]

NamesOf(ids) == [j \in 1..Len(ids) |-> NameOf[ids[j]]]

\* where and when the events of the listing take place
DateOf == [e \in EventIds |-> IF e = "e1" THEN 0 ELSE 2]
AreaOf == [e \in EventIds |-> IF e = "e1" THEN "13" ELSE "34"]

\* A raw record of the Source: id, date, lineup (artists[].id), venue.area.id
RawEvents ==
    {r \in [id: EventIds, date: EventDates, artists: SUBSET ArtistIds, area: Areas] :
        r.date = DateOf[r.id] /\ r.area = AreaOf[r.id]}

\* selectedArtistIds of the *WithArtists entry points (request body)
Selections == {<<"a1">>, <<"a2", "a1">>}

BatchReason == "Batch notification sent"
ManualReason == "Manual notification sent"

VARIABLES
    \* Database
    events,            \* table events: set of [id, date]
    event_artists,     \* table event_artists: set of [event_id, artist_id]
    notifications,     \* table notifications: sequence of [event_id, message]
    \* EventMonitor
    configArtists,     \* config.artists (ids, in order)
    configNames,       \* config.artists (names, in the same order)
    notificationService, \* TRUE iff the Pushover credentials were present at init
    today,             \* the day `new Date()` reports
    \* the run in progress
    pc,                \* where the run is
    mode,              \* "NORMAL" (checkForNewEvents*) or "FORCE" (*Manual*)
    manualAll,         \* TRUE in checkForNewEventsManual, which fetches twice
    artistIds,         \* artistIds / selectedArtistIds
    dateRange,         \* dateRange of the run
    i,                 \* artists finished so far (the loop index)
    fetchPass,         \* 1, or 2 in the second fetch of checkForNewEventsManual
    pageNumber,        \* pageNumber of fetchAllEvents
    fetched,           \* allEvents of fetchAllEvents, then events / fetchedEvents
    k,                 \* position of the save loop in fetched
    sinceRequest,      \* "request" after a page request of this artist step that no
                       \* sleep has followed yet, "sleep" after the sleep, else "none"
    allNewEvents,      \* allNewEvents / allEvents: ids of the run's collection
    m,                 \* position of the mark loop in allNewEvents
    \* what the run in progress has done so far
    runs,              \* runs started
    srcErr,            \* getEvents swallowed an error in the current artist step
    sendCalls,         \* calls of sendBatchNotification in this run
    sendResult,        \* "none", "ok" or "failed"
    sentBatch,         \* the collection handed to sendBatchNotification
    notifAtStart,      \* Len(notifications) when the run began
    markFailed,        \* a markNotificationSent of this run rejected
    \* history, recorded by SpecRepeat and SpecRetry only
    sourceOut,         \* what the Source returned to a single-artist run
    prevSel,           \* artistIds of the last run, if that was a single-artist
                       \* run on this same day, else <<>>
    prevOut,           \* what the Source returned to that run
    pending,           \* events of failed NORMAL batches that are still unnotified
    \* a single call of getNewEventsForArtists, made by SpecQuery only
    query,             \* its arguments
    answered,          \* TRUE once it has returned
    answer,            \* the rows it returned
    \* direct calls of the Database, made by SpecStore only
    eventColumns,      \* events.title, created_at, updated_at, by event id
    saving,            \* the record of the saveEvent call in progress
    savePc,            \* the statement saveEvent is about to run
    toInsert,          \* artists of the record not yet inserted
    saves,             \* saveEvent calls made
    outcome,           \* "resolved" or "rejected": how the last call ended
    beforeSave,        \* the tables as they were when the last call began
    prevSaved,         \* the record of the call before, if that resolved
    firstCreated,      \* events.created_at at the first insertion, by event id
    observed,          \* what the last read of an event's artist list returned
    \* a second check in progress, made by SpecOverlap only
    other,             \* the locals of the check that is suspended at an await
    \* the configuration as loaded, and how a check ended: SpecConfig only
    configLoaded,      \* what loadConfig found in config.json
    runError,          \* TRUE iff the last check rejected (threw to its caller)
    \* a single call of fetchAllEvents / fetchEventsWithPageLimit: SpecFetch only
    call,              \* the Source's pages, the limit, the requests made, the result
    \* a single call of the NotificationService: SpecNotify only
    sending,           \* the events handed over, the sends made, how the call ended
    \* a single request GET /api/events: SpecEvents only
    listed,            \* the response: status, body, whether the Store failed
    \* requests POST /api/artists: SpecArtists only
    artistPosts        \* the handlers awaiting writeFile, the last response, a count

store == <<events, event_artists, notifications>>
env == <<configArtists, configNames, notificationService, today>>
params == <<mode, manualAll, artistIds, dateRange, runs, notifAtStart>>
fetchv == <<fetchPass, pageNumber, fetched, k, sinceRequest>>
notifyv == <<sendCalls, sendResult, sentBatch, markFailed, m>>
history == <<sourceOut, prevSel, prevOut, pending>>
asked == <<query, answered, answer>>
direct == <<eventColumns, saving, savePc, toInsert, saves, outcome, beforeSave, prevSaved,
           firstCreated, observed>>
served == <<sending, listed, artistPosts>>
aside == <<other, configLoaded, runError, call, served>>
vars == <<store, env, params, fetchv, notifyv, pc, i, allNewEvents, srcErr, history, asked,
          direct, aside>>

\* ------------------------------------------------------------ Database
HasRow(tbl, id) == \E r \in tbl : r.id = id

Notified(notifs) == {notifs[j].event_id : j \in 1..Len(notifs)}

\* hasNotificationBeenSent: COUNT(*) > 0
hasNotificationBeenSent(notifs, eventId) ==
    Cardinality({j \in 1..Len(notifs) : notifs[j].event_id = eventId}) > 0

\* (mutant) the query without AND e.id NOT IN (SELECT event_id FROM notifications)
NewEventRowsAnyway(ev, ea, notifs, ids, startDate, endDate) ==
    {e \in ev :
        /\ \E a \in ea : a.event_id = e.id /\ a.artist_id \in ids
        /\ startDate <= e.date /\ e.date <= endDate}

\* (mutant) the query with the window's start excluded
NewEventRowsAfterStart(ev, ea, notifs, ids, startDate, endDate) ==
    {e \in ev :
        /\ \E a \in ea : a.event_id = e.id /\ a.artist_id \in ids
        /\ e.date > startDate /\ e.date <= endDate
        /\ e.id \notin {notifs[j].event_id : j \in 1..Len(notifs)}}

\* the rows SELECT DISTINCT e.* ... of getNewEventsForArtists, before ORDER BY
NewEventRows(ev, ea, notifs, ids, startDate, endDate) ==
    {e \in ev :
        /\ \E a \in ea : a.event_id = e.id /\ a.artist_id \in ids
        /\ e.date >= startDate /\ e.date <= endDate
        /\ e.id \notin {notifs[j].event_id : j \in 1..Len(notifs)}}

\* every ordering of a set of rows that ORDER BY date ASC allows
OrderedByDate(rows) ==
    {s \in [1..Cardinality(rows) -> rows] :
        /\ \A p, q \in 1..Cardinality(rows) : p # q => s[p] # s[q]
        /\ \A p, q \in 1..Cardinality(rows) : p < q => s[p].date <= s[q].date}

getNewEventsForArtists(ev, ea, notifs, ids, startDate, endDate) ==
    OrderedByDate(NewEventRows(ev, ea, notifs, ids, startDate, endDate))

\* rows of getEventsByDateRange, before ORDER BY
getEventsByDateRange(ev, startDate, endDate) ==
    {e \in ev : e.date >= startDate /\ e.date <= endDate}

\* (mutant) the old row is deleted and no new one is written
ReplaceEventRowDropped(ev, raw) ==
    {e \in ev : e.id # raw.id}

\* INSERT OR REPLACE INTO events
ReplaceEventRow(ev, raw) ==
    {e \in ev : e.id # raw.id} \cup {[id |-> raw.id, date |-> raw.date]}

\* DELETE FROM event_artists WHERE event_id = ? and the INSERTs, done only
\* for a non-empty artists list
ReplaceArtists(ea, raw) ==
    IF raw.artists # {}
    THEN {a \in ea : a.event_id # raw.id}
         \cup {[event_id |-> raw.id, artist_id |-> x] : x \in raw.artists}
    ELSE ea

\* the states a saveEvent that fails can leave behind: statement 1 failed
\* (nothing written), or the row is replaced and the artist statements
\* stopped after the DELETE or after some of the INSERTs
SaveEventPartial(ev, ea, raw) ==
    {<<ev, ea>>} \cup
    (IF raw.artists = {} THEN {}
     ELSE {<<ReplaceEventRow(ev, raw), ea>>} \cup
          {<<ReplaceEventRow(ev, raw),
             {a \in ea : a.event_id # raw.id}
               \cup {[event_id |-> raw.id, artist_id |-> x] : x \in done}>>
            : done \in (SUBSET raw.artists) \ {raw.artists}})

\* (mutant) an event that has a row gets no second one
markNotificationSentOnce(notifs, eventId, message) ==
    IF hasNotificationBeenSent(notifs, eventId)
    THEN notifs
    ELSE Append(notifs, [event_id |-> eventId, message |-> message])

\* (mutant) the new row takes the place of the event's earlier rows
markNotificationSentInPlace(notifs, eventId, message) ==
    Append(SelectSeq(notifs, LAMBDA n : n.event_id # eventId),
           [event_id |-> eventId, message |-> message])

\* INSERT INTO notifications (event_id, message) VALUES (?, ?)
markNotificationSent(notifs, eventId, message) ==
    Append(notifs, [event_id |-> eventId, message |-> message])

\* -------------------------------------------------------- EventMonitor
getDateRange(now) ==
    [start |-> IF IncludePastDay THEN now - 1 ELSE now,
     end |-> now + DateRangeDays]

\* dateRange outside a run
NoDateRange == [start |-> 0, end |-> 0]

\* the area filter of the manual checks
InConfiguredArea(raw) == raw.area = LocationAreaId

Ids(s) == [j \in 1..Len(s) |-> s[j].id]

Range(s) == {s[j] : j \in 1..Len(s)}

NoQuery == [ids |-> {}, startDate |-> 0, endDate |-> 0]

\* the values of the variables of SpecStore while no call has been made
Titles == {"t1", "t2"}

NoColumns == [title |-> "", created_at |-> 0, updated_at |-> 0]

NoRecord == [id |-> "", date |-> 0, artists |-> {}, area |-> "", title |-> ""]

NoTables == [events |-> {}, event_artists |-> {},
             eventColumns |-> [e \in EventIds |-> NoColumns]]

NoObservation == [id |-> "", artists |-> {}, expected |-> {}, afterDelete |-> FALSE]

NoDirectCall ==
    /\ eventColumns = [e \in EventIds |-> NoColumns]
    /\ saving = NoRecord
    /\ savePc = "idle"
    /\ toInsert = {}
    /\ saves = 0
    /\ outcome = "none"
    /\ beforeSave = NoTables
    /\ prevSaved = NoRecord
    /\ firstCreated = [e \in EventIds |-> 0]
    /\ observed = NoObservation

\* the locals of a check that has not been called
NoCheck ==
    [pc |-> "idle", mode |-> "NORMAL", manualAll |-> FALSE, artistIds |-> <<>>,
     dateRange |-> NoDateRange, notifAtStart |-> 0, i |-> 0, fetchPass |-> 1,
     pageNumber |-> 1, fetched |-> <<>>, k |-> 1, sinceRequest |-> "none",
     allNewEvents |-> <<>>, m |-> 1, srcErr |-> FALSE, sendCalls |-> 0,
     sendResult |-> "none", sentBatch |-> <<>>, markFailed |-> FALSE]

\* no call of the fetcher on its own
NoFetchCall ==
    [method |-> "none", listing |-> <<>>, failsAt |-> 0, maxPages |-> 0, pageNumber |-> 1,
     allEvents |-> <<>>, requested |-> <<>>, state |-> "none"]

\* no call of the NotificationService on its own
NoSending ==
    [method |-> "none", events |-> <<>>, state |-> "none", sends |-> <<>>,
     callback |-> "none", outcome |-> "none", calls |-> 0]

\* no request POST /api/artists has been made
NoPosts ==
    [inFlight |-> {},
     reply |-> [status |-> 0, id |-> "", name |-> "", before |-> 0],
     requests |-> 0]

\* GET /api/events has not been answered
NoReply == [status |-> 0, body |-> {}, storeFailed |-> FALSE]

NoAside ==
    /\ other = NoCheck
    /\ configLoaded = "valid"
    /\ runError = FALSE
    /\ call = NoFetchCall
    /\ sending = NoSending
    /\ listed = NoReply
    /\ artistPosts = NoPosts

Init ==
    /\ events = {}
    /\ event_artists = {}
    /\ notifications = <<>>
    /\ configArtists = <<"a1", "a2">>
    /\ configNames = NamesOf(<<"a1", "a2">>)
    /\ notificationService \in BOOLEAN
    /\ today = FirstDay
    /\ pc = "idle"
    /\ mode = "NORMAL"
    /\ manualAll = FALSE
    /\ artistIds = <<>>
    /\ dateRange = NoDateRange
    /\ i = 0
    /\ fetchPass = 1
    /\ pageNumber = 1
    /\ fetched = <<>>
    /\ k = 1
    /\ sinceRequest = "none"
    /\ allNewEvents = <<>>
    /\ m = 1
    /\ runs = 0
    /\ srcErr = FALSE
    /\ sendCalls = 0
    /\ sendResult = "none"
    /\ sentBatch = <<>>
    /\ notifAtStart = 0
    /\ markFailed = FALSE
    /\ sourceOut = <<>>
    /\ prevSel = <<>>
    /\ prevOut = <<>>
    /\ pending = {}
    /\ query = NoQuery
    /\ answered = FALSE
    /\ answer = <<>>
    /\ NoDirectCall
    /\ NoAside

\* the clock moves on between runs
Tick ==
    /\ pc = "idle"
    /\ today < MaxDay
    /\ today' = today + 1
    /\ UNCHANGED <<store, configArtists, configNames, notificationService, params, fetchv,
                   notifyv, pc, i, allNewEvents, srcErr>>

ResetFetch ==
    /\ fetchPass' = 1
    /\ pageNumber' = 1
    /\ fetched' = <<>>
    /\ k' = 1
    /\ sinceRequest' = "none"

\* entry of one of the four checks: dateRange and the artist list are read
BeginRun(md, all, sel) ==
    /\ pc = "idle"
    /\ runs < MaxRuns
    /\ runs' = runs + 1
    /\ mode' = md
    /\ manualAll' = (md = "FORCE" /\ all)
    /\ artistIds' = sel
    /\ dateRange' = getDateRange(today)
    /\ notifAtStart' = Len(notifications)
    /\ i' = 0
    /\ allNewEvents' = <<>>
    /\ srcErr' = FALSE
    /\ sendCalls' = 0
    /\ sendResult' = "none"
    /\ sentBatch' = <<>>
    /\ markFailed' = FALSE
    /\ m' = 1
    /\ ResetFetch
    /\ pc' = "artist"
    /\ UNCHANGED <<store, env>>

checkForNewEvents == BeginRun("NORMAL", TRUE, configArtists)

checkForNewEventsManual == BeginRun("FORCE", TRUE, configArtists)

checkForNewEventsWithArtists == \E sel \in Selections : BeginRun("NORMAL", FALSE, sel)

checkForNewEventsManualWithArtists == \E sel \in Selections : BeginRun("FORCE", FALSE, sel)

\* the artist the loop is at, and whether it is the last one
artistId == artistIds[i + 1]

IsLastArtist == ~(i < Len(artistIds) - 1)

\* (mutant) the catch block ends the run
CatchArtistErrorEndsRun ==
    /\ srcErr' = FALSE
    /\ i' = i
    /\ pc' = "done"
    /\ ResetFetch

\* (mutant) the catch block has the loop try the same artist again
CatchArtistErrorRetries ==
    /\ srcErr' = FALSE
    /\ i' = i
    /\ pc' = "artist"
    /\ ResetFetch

\* the catch block of the artist loop: log, and on to the next artist
CatchArtistError ==
    /\ srcErr' = FALSE
    /\ i' = i + 1
    /\ pc' = "artist"
    /\ ResetFetch

\* the end of the try block: the inter-artist delay unless this was the last
EndOfArtistStep ==
    /\ srcErr' = FALSE
    /\ ResetFetch
    /\ IF IsLastArtist
       THEN i' = i + 1 /\ pc' = "artist"
       ELSE i' = i /\ pc' = "delay"

\* (mutant) the next artist's fetcher is built while this artist's records are
\* still being saved
NewEventFetcherEarly ==
    /\ \/ pc = "artist" /\ i < Len(artistIds) /\ i' = i
       \/ pc = "save" /\ k <= Len(fetched) /\ i < Len(artistIds) - 1 /\ i' = i + 1
    /\ pc' = "fetch"
    /\ UNCHANGED <<store, env, params, fetchv, notifyv, allNewEvents, srcErr>>

\* new EventFetcher(...): generatePayload reads and parses the query template
NewEventFetcher ==
    /\ pc = "artist"
    /\ i < Len(artistIds)
    /\ pc' = "fetch"
    /\ UNCHANGED <<store, env, params, fetchv, notifyv, i, allNewEvents, srcErr>>

NewEventFetcherThrows ==
    /\ pc = "artist"
    /\ i < Len(artistIds)
    /\ CatchArtistError
    /\ UNCHANGED <<store, env, params, notifyv, allNewEvents>>

\* the Source lists each event once, in date order
NextInListing(sofar, raw) ==
    \A j \in 1..Len(sofar) : sofar[j].id # raw.id /\ sofar[j].date <= raw.date

\* fetchAllEvents, one iteration: getEvents returned a non-empty page
\* (pages hold one record here), followed by sleep(DELAY)
GetEventsPage ==
    /\ pc = "fetch"
    /\ pageNumber <= MaxPages
    /\ \E raw \in RawEvents :
          /\ NextInListing(fetched, raw)
          /\ fetched' = Append(fetched, raw)
    /\ pageNumber' = pageNumber + 1
    /\ sinceRequest' = "sleep"
    /\ UNCHANGED <<store, env, params, fetchPass, k, notifyv, pc, i, allNewEvents, srcErr>>

\* getEvents returned [] because the Source had no more records
GetEventsEmpty ==
    /\ pc = "fetch"
    /\ pc' = "save"
    /\ sinceRequest' = "request"
    /\ UNCHANGED <<store, env, params, fetchPass, pageNumber, fetched, k, notifyv, i,
                   allNewEvents, srcErr>>

\* getEvents caught an error (network, HTTP, no data field) and returned []
GetEventsError ==
    /\ pc = "fetch"
    /\ pc' = "save"
    /\ srcErr' = TRUE
    /\ sinceRequest' = "request"
    /\ UNCHANGED <<store, env, params, fetchPass, pageNumber, fetched, k, notifyv, i,
                   allNewEvents>>

\* for (const event of events) await this.db.saveEvent(event)
SaveEvent ==
    /\ pc = "save"
    /\ k <= Len(fetched)
    /\ events' = ReplaceEventRow(events, fetched[k])
    /\ event_artists' = ReplaceArtists(event_artists, fetched[k])
    /\ k' = k + 1
    /\ UNCHANGED <<notifications, env, params, fetchPass, pageNumber, fetched,
                   sinceRequest, notifyv, pc, i, allNewEvents, srcErr>>

SaveEventThrows ==
    /\ pc = "save"
    /\ k <= Len(fetched)
    /\ \E part \in SaveEventPartial(events, event_artists, fetched[k]) :
          /\ events' = part[1]
          /\ event_artists' = part[2]
    /\ CatchArtistError
    /\ UNCHANGED <<notifications, env, params, notifyv, allNewEvents>>

\* (mutant) only the rows of events this fetch returned are appended
QueryNewEventsOfThisFetch ==
    /\ pc = "save"
    /\ k > Len(fetched)
    /\ mode = "NORMAL"
    /\ \E newEvents \in getNewEventsForArtists(events, event_artists, notifications,
                            {artistId}, dateRange.start, dateRange.end) :
          LET WasFetched(row) == \E j \in 1..Len(fetched) : fetched[j].id = row.id
          IN allNewEvents' = allNewEvents \o Ids(SelectSeq(newEvents, WasFetched))
    /\ EndOfArtistStep
    /\ UNCHANGED <<store, env, params, notifyv>>

\* (mutant) the dedup query is made for all artists of the check at once
QueryNewEventsOfAllArtists ==
    /\ pc = "save"
    /\ k > Len(fetched)
    /\ mode = "NORMAL"
    /\ \E newEvents \in getNewEventsForArtists(events, event_artists, notifications,
                            Range(artistIds), dateRange.start, dateRange.end) :
          allNewEvents' = allNewEvents \o Ids(newEvents)
    /\ EndOfArtistStep
    /\ UNCHANGED <<store, env, params, notifyv>>

\* checkForNewEvents[WithArtists]: the dedup query of this artist, appended
QueryNewEvents ==
    /\ pc = "save"
    /\ k > Len(fetched)
    /\ mode = "NORMAL"
    /\ \E newEvents \in getNewEventsForArtists(events, event_artists, notifications,
                            {artistId}, dateRange.start, dateRange.end) :
          allNewEvents' = allNewEvents \o Ids(newEvents)
    /\ EndOfArtistStep
    /\ UNCHANGED <<store, env, params, notifyv>>

QueryNewEventsThrows ==
    /\ pc = "save"
    /\ k > Len(fetched)
    /\ mode = "NORMAL"
    /\ CatchArtistError
    /\ UNCHANGED <<store, env, params, notifyv, allNewEvents>>

\* checkForNewEventsManual: the second fetchAllEvents of the same fetcher
SecondFetchPass ==
    /\ pc = "save"
    /\ k > Len(fetched)
    /\ mode = "FORCE"
    /\ manualAll
    /\ fetchPass = 1
    /\ fetchPass' = 2
    /\ pc' = "fetch"
    /\ pageNumber' = 1
    /\ fetched' = <<>>
    /\ k' = 1
    /\ UNCHANGED <<store, env, params, sinceRequest, notifyv, i, allNewEvents, srcErr>>

\* (mutant) records whose event has a Notification row are left out
FilterByAreaUnnotified ==
    /\ pc = "save"
    /\ k > Len(fetched)
    /\ mode = "FORCE"
    /\ manualAll => fetchPass = 2
    /\ LET Wanted(raw) == /\ InConfiguredArea(raw)
                          /\ ~hasNotificationBeenSent(notifications, raw.id)
       IN allNewEvents' = allNewEvents \o Ids(SelectSeq(fetched, Wanted))
    /\ EndOfArtistStep
    /\ UNCHANGED <<store, env, params, notifyv>>

\* the manual checks: the fetched records in the configured area, appended
FilterByArea ==
    /\ pc = "save"
    /\ k > Len(fetched)
    /\ mode = "FORCE"
    /\ manualAll => fetchPass = 2
    /\ LET filteredEvents == SelectSeq(fetched, InConfiguredArea)
       IN allNewEvents' = allNewEvents \o Ids(filteredEvents)
    /\ EndOfArtistStep
    /\ UNCHANGED <<store, env, params, notifyv>>

\* await new Promise(resolve => setTimeout(resolve, 2000))
InterArtistDelay ==
    /\ pc = "delay"
    /\ i' = i + 1
    /\ pc' = "artist"
    /\ UNCHANGED <<store, env, params, fetchv, notifyv, allNewEvents, srcErr>>

\* the loop is over; sendBatchNotification resolves
SendBatchNotification ==
    /\ pc = "artist"
    /\ i = Len(artistIds)
    /\ Len(allNewEvents) > 0
    /\ notificationService
    /\ sendCalls' = sendCalls + 1
    /\ sendResult' = "ok"
    /\ sentBatch' = allNewEvents
    /\ pc' = "mark"
    /\ UNCHANGED <<store, env, params, fetchv, markFailed, m, i, allNewEvents, srcErr>>

\* (mutant) the rejection is ignored and the mark loop runs
SendBatchNotificationThrowsMarks ==
    /\ pc = "artist"
    /\ i = Len(artistIds)
    /\ Len(allNewEvents) > 0
    /\ notificationService
    /\ sendCalls' = sendCalls + 1
    /\ sendResult' = "failed"
    /\ sentBatch' = allNewEvents
    /\ pc' = "mark"
    /\ UNCHANGED <<store, env, params, fetchv, markFailed, m, i, allNewEvents, srcErr>>

\* sendBatchNotification rejects: the catch logs and the run ends
SendBatchNotificationThrows ==
    /\ pc = "artist"
    /\ i = Len(artistIds)
    /\ Len(allNewEvents) > 0
    /\ notificationService
    /\ sendCalls' = sendCalls + 1
    /\ sendResult' = "failed"
    /\ sentBatch' = allNewEvents
    /\ pc' = "done"
    /\ UNCHANGED <<store, env, params, fetchv, markFailed, m, i, allNewEvents, srcErr>>

\* (mutant) the notification step is skipped whatever was collected
NoNotificationAtAll ==
    /\ pc = "artist"
    /\ i = Len(artistIds)
    /\ pc' = "done"
    /\ UNCHANGED <<store, env, params, fetchv, notifyv, i, allNewEvents, srcErr>>

\* nothing to send, or notifications are disabled
NoNotification ==
    /\ pc = "artist"
    /\ i = Len(artistIds)
    /\ ~(Len(allNewEvents) > 0 /\ notificationService)
    /\ pc' = "done"
    /\ UNCHANGED <<store, env, params, fetchv, notifyv, i, allNewEvents, srcErr>>

ReasonOf(md) == IF md = "NORMAL" THEN BatchReason ELSE ManualReason

\* for (const event of allNewEvents) await this.db.markNotificationSent(...)
MarkNotificationSent ==
    /\ pc = "mark"
    /\ m <= Len(allNewEvents)
    /\ notifications' = markNotificationSent(notifications, allNewEvents[m], ReasonOf(mode))
    /\ m' = m + 1
    /\ UNCHANGED <<events, event_artists, env, params, fetchv, sendCalls, sendResult,
                   sentBatch, markFailed, pc, i, allNewEvents, srcErr>>

MarkNotificationSentThrows ==
    /\ pc = "mark"
    /\ m <= Len(allNewEvents)
    /\ markFailed' = TRUE
    /\ pc' = "done"
    /\ UNCHANGED <<store, env, params, fetchv, sendCalls, sendResult, sentBatch, m, i,
                   allNewEvents, srcErr>>

MarkingDone ==
    /\ pc = "mark"
    /\ m > Len(allNewEvents)
    /\ pc' = "done"
    /\ UNCHANGED <<store, env, params, fetchv, notifyv, i, allNewEvents, srcErr>>

\* the check returns to its caller; its locals are gone
Return ==
    /\ pc = "done"
    /\ pc' = "idle"
    /\ mode' = "NORMAL"
    /\ manualAll' = FALSE
    /\ artistIds' = <<>>
    /\ dateRange' = NoDateRange
    /\ notifAtStart' = 0
    /\ i' = 0
    /\ allNewEvents' = <<>>
    /\ m' = 1
    /\ sendCalls' = 0
    /\ sendResult' = "none"
    /\ sentBatch' = <<>>
    /\ markFailed' = FALSE
    /\ UNCHANGED <<store, env, runs, fetchv, srcErr>>

\* --------------------------------------------------------- specifications
NoHistory == UNCHANGED <<history, asked, direct, aside>>

Next ==
    \/ Tick /\ NoHistory
    \/ checkForNewEvents /\ NoHistory
    \/ checkForNewEventsManual /\ NoHistory
    \/ checkForNewEventsWithArtists /\ NoHistory
    \/ checkForNewEventsManualWithArtists /\ NoHistory
    \/ NewEventFetcher /\ NoHistory
    \/ NewEventFetcherThrows /\ NoHistory
    \/ GetEventsPage /\ NoHistory
    \/ GetEventsEmpty /\ NoHistory
    \/ GetEventsError /\ NoHistory
    \/ SaveEvent /\ NoHistory
    \/ SaveEventThrows /\ NoHistory
    \/ QueryNewEvents /\ NoHistory
    \/ QueryNewEventsThrows /\ NoHistory
    \/ SecondFetchPass /\ NoHistory
    \/ FilterByArea /\ NoHistory
    \/ InterArtistDelay /\ NoHistory
    \/ SendBatchNotification /\ NoHistory
    \/ SendBatchNotificationThrows /\ NoHistory
    \/ NoNotification /\ NoHistory
    \/ MarkNotificationSent /\ NoHistory
    \/ MarkNotificationSentThrows /\ NoHistory
    \/ MarkingDone /\ NoHistory
    \/ Return /\ NoHistory

Spec == Init /\ [][Next]_vars

\* Fault-free NORMAL runs, with the Source's output of a single-artist run and
\* of the run before it recorded: the setting of the repeated-run scenario.
RepeatTick ==
    /\ prevSel' = <<>>
    /\ prevOut' = <<>>
    /\ UNCHANGED <<sourceOut, pending, asked, direct, aside>>

RepeatStepEnd ==
    /\ sourceOut' = (IF Len(artistIds) = 1 THEN fetched ELSE <<>>)
    /\ UNCHANGED <<prevSel, prevOut, pending, asked, direct, aside>>

RepeatReturn ==
    /\ sourceOut' = <<>>
    /\ IF Len(artistIds) = 1
       THEN prevSel' = artistIds /\ prevOut' = sourceOut
       ELSE prevSel' = <<>> /\ prevOut' = <<>>
    /\ UNCHANGED <<pending, asked, direct, aside>>

NextRepeat ==
    \/ Tick /\ RepeatTick
    \/ checkForNewEventsWithArtists /\ NoHistory
    \/ NewEventFetcher /\ NoHistory
    \/ GetEventsPage /\ NoHistory
    \/ GetEventsEmpty /\ NoHistory
    \/ SaveEvent /\ NoHistory
    \/ QueryNewEvents /\ RepeatStepEnd
    \/ InterArtistDelay /\ NoHistory
    \/ SendBatchNotification /\ NoHistory
    \/ NoNotification /\ NoHistory
    \/ MarkNotificationSent /\ NoHistory
    \/ MarkingDone /\ NoHistory
    \/ Return /\ RepeatReturn

SpecRepeat == Init /\ [][NextRepeat]_vars

\* Every step, with the events of failed NORMAL batches recorded until they
\* get their Notification row.
RetrySendFailed ==
    /\ pending' = (IF mode = "NORMAL" THEN pending \cup Range(allNewEvents) ELSE pending)
    /\ UNCHANGED <<sourceOut, prevSel, prevOut, asked, direct, aside>>

RetryMarked ==
    /\ pending' = pending \ {allNewEvents[m]}
    /\ UNCHANGED <<sourceOut, prevSel, prevOut, asked, direct, aside>>

NextRetry ==
    \/ Tick /\ NoHistory
    \/ checkForNewEvents /\ NoHistory
    \/ checkForNewEventsManual /\ NoHistory
    \/ checkForNewEventsWithArtists /\ NoHistory
    \/ checkForNewEventsManualWithArtists /\ NoHistory
    \/ NewEventFetcher /\ NoHistory
    \/ NewEventFetcherThrows /\ NoHistory
    \/ GetEventsPage /\ NoHistory
    \/ GetEventsEmpty /\ NoHistory
    \/ GetEventsError /\ NoHistory
    \/ SaveEvent /\ NoHistory
    \/ SaveEventThrows /\ NoHistory
    \/ QueryNewEvents /\ NoHistory
    \/ QueryNewEventsThrows /\ NoHistory
    \/ SecondFetchPass /\ NoHistory
    \/ FilterByArea /\ NoHistory
    \/ InterArtistDelay /\ NoHistory
    \/ SendBatchNotification /\ NoHistory
    \/ SendBatchNotificationThrows /\ RetrySendFailed
    \/ NoNotification /\ NoHistory
    \/ MarkNotificationSent /\ RetryMarked
    \/ MarkNotificationSentThrows /\ NoHistory
    \/ MarkingDone /\ NoHistory
    \/ Return /\ NoHistory

SpecRetry == Init /\ [][NextRetry]_vars

\* A single call of getNewEventsForArtists on an arbitrary store: any rows
\* the schema admits (events.id is the primary key; event_artists and
\* notifications may reference absent events, foreign keys are not enforced),
\* any list of artist ids and any window.
Days == 0..(MaxDay + DateRangeDays)

InitQuery ==
    /\ events \in {ev \in SUBSET [id : EventIds, date : Days] :
                      \A r1, r2 \in ev : r1.id = r2.id => r1 = r2}
    /\ event_artists \in SUBSET [event_id : EventIds, artist_id : ArtistIds]
    /\ notifications \in {<<>>}
          \cup {<<[event_id |-> e, message |-> BatchReason]>> : e \in EventIds}
          \cup {<<[event_id |-> e, message |-> BatchReason],
                  [event_id |-> f, message |-> ManualReason]>> : e, f \in EventIds}
    /\ query \in [ids : SUBSET ArtistIds, startDate : Days, endDate : Days]
    /\ answered = FALSE
    /\ answer = <<>>
    /\ NoDirectCall
    /\ NoAside
    /\ configArtists = <<"a1", "a2">>
    /\ configNames = NamesOf(<<"a1", "a2">>)
    /\ notificationService = TRUE
    /\ today = FirstDay
    /\ pc = "idle"
    /\ mode = "NORMAL"
    /\ manualAll = FALSE
    /\ artistIds = <<>>
    /\ dateRange = NoDateRange
    /\ i = 0
    /\ fetchPass = 1
    /\ pageNumber = 1
    /\ fetched = <<>>
    /\ k = 1
    /\ sinceRequest = "none"
    /\ allNewEvents = <<>>
    /\ m = 1
    /\ runs = 0
    /\ srcErr = FALSE
    /\ sendCalls = 0
    /\ sendResult = "none"
    /\ sentBatch = <<>>
    /\ notifAtStart = 0
    /\ markFailed = FALSE
    /\ sourceOut = <<>>
    /\ prevSel = <<>>
    /\ prevOut = <<>>
    /\ pending = {}

GetNewEventsForArtists ==
    /\ ~answered
    /\ answer' \in getNewEventsForArtists(events, event_artists, notifications,
                                          query.ids, query.startDate, query.endDate)
    /\ answered' = TRUE
    /\ UNCHANGED <<store, env, params, fetchv, notifyv, pc, i, allNewEvents, srcErr,
                   history, query, direct, aside>>

NextQuery == GetNewEventsForArtists

SpecQuery == InitQuery /\ [][NextQuery]_vars

\* Direct calls of the Database, statement by statement: saveEvent awaits each
\* of its statements, so the clock, markNotificationSent and reads of other
\* callers (an overlapping run, a REST request) come in between.
monitor == <<params, fetchv, notifyv, pc, i, allNewEvents, srcErr, history, asked, aside>>

\* saveEvent(event) is called
SaveEventCalled ==
    /\ savePc = "idle"
    /\ saves < MaxSaves
    /\ saves' = saves + 1
    /\ \E raw \in RawEvents, t \in Titles :
          saving' = [id |-> raw.id, date |-> raw.date, artists |-> raw.artists,
                     area |-> raw.area, title |-> t]
    /\ prevSaved' = (IF outcome = "resolved" THEN saving ELSE NoRecord)
    /\ beforeSave' = [events |-> events, event_artists |-> event_artists,
                      eventColumns |-> eventColumns]
    /\ outcome' = "none"
    /\ observed' = NoObservation
    /\ savePc' = "row"
    /\ UNCHANGED <<store, env, monitor, eventColumns, toInsert, firstCreated>>

\* (mutant) the replaced row takes the Notification rows that reference it along
SaveEventRowCascades ==
    /\ savePc = "row"
    /\ events' = ReplaceEventRow(events, saving)
    /\ notifications' = SelectSeq(notifications, LAMBDA n : n.event_id # saving.id)
    /\ eventColumns' = [eventColumns EXCEPT ![saving.id] =
                           [title |-> saving.title, created_at |-> today,
                            updated_at |-> today]]
    /\ firstCreated' = IF HasRow(events, saving.id)
                       THEN firstCreated
                       ELSE [firstCreated EXCEPT ![saving.id] = today]
    /\ savePc' = (IF saving.artists # {} THEN "delete" ELSE "resolve")
    /\ UNCHANGED <<event_artists, env, monitor, saving, toInsert, saves,
                   outcome, beforeSave, prevSaved, observed>>

\* INSERT OR REPLACE INTO events (..., updated_at) VALUES (..., CURRENT_TIMESTAMP):
\* the old row is deleted, created_at of the new one takes its default
SaveEventRow ==
    /\ savePc = "row"
    /\ events' = ReplaceEventRow(events, saving)
    /\ eventColumns' = [eventColumns EXCEPT ![saving.id] =
                           [title |-> saving.title, created_at |-> today,
                            updated_at |-> today]]
    /\ firstCreated' = IF HasRow(events, saving.id)
                       THEN firstCreated
                       ELSE [firstCreated EXCEPT ![saving.id] = today]
    /\ savePc' = (IF saving.artists # {} THEN "delete" ELSE "resolve")
    /\ UNCHANGED <<event_artists, notifications, env, monitor, saving, toInsert, saves,
                   outcome, beforeSave, prevSaved, observed>>

\* DELETE FROM event_artists WHERE event_id = ?
SaveEventDeleteArtists ==
    /\ savePc = "delete"
    /\ event_artists' = {a \in event_artists : a.event_id # saving.id}
    /\ toInsert' = saving.artists
    /\ savePc' = "insert"
    /\ UNCHANGED <<events, notifications, env, monitor, eventColumns, saving, saves,
                   outcome, beforeSave, prevSaved, firstCreated, observed>>

\* INSERT INTO event_artists ..., once per artist of the record
SaveEventInsertArtist ==
    /\ savePc = "insert"
    /\ \E a \in toInsert :
          /\ event_artists' = event_artists \cup {[event_id |-> saving.id, artist_id |-> a]}
          /\ toInsert' = toInsert \ {a}
    /\ UNCHANGED <<events, notifications, env, monitor, eventColumns, saving, savePc,
                   saves, outcome, beforeSave, prevSaved, firstCreated, observed>>

\* the call resolves
SaveEventResolves ==
    /\ \/ savePc = "resolve"
       \/ savePc = "insert" /\ toInsert = {}
    /\ savePc' = "idle"
    /\ outcome' = "resolved"
    /\ UNCHANGED <<store, env, monitor, eventColumns, saving, toInsert, saves, beforeSave,
                   prevSaved, firstCreated, observed>>

\* run() rejects for the statement saveEvent is at; the call rejects
SaveEventRejects ==
    /\ \/ savePc \in {"row", "delete"}
       \/ savePc = "insert" /\ toInsert # {}
    /\ savePc' = "idle"
    /\ toInsert' = {}
    /\ outcome' = "rejected"
    /\ UNCHANGED <<store, env, monitor, eventColumns, saving, saves, beforeSave,
                   prevSaved, firstCreated, observed>>

\* markNotificationSent(eventId, message), by any caller
MarkNotificationSentCalled ==
    /\ Len(notifications) < MaxMarks
    /\ \E e \in EventIds, msg \in {BatchReason, ManualReason} :
          notifications' = markNotificationSent(notifications, e, msg)
    /\ UNCHANGED <<events, event_artists, env, monitor, direct>>

\* SELECT artist_id, artist_name FROM event_artists WHERE event_id = ?
ReadEventArtists ==
    /\ savePc # "idle"
    /\ \E e \in EventIds :
          observed' = [id |-> e,
                       artists |-> {a.artist_id : a \in {x \in event_artists : x.event_id = e}},
                       expected |-> saving.artists,
                       afterDelete |-> (saving.id = e /\ savePc = "insert")]
    /\ UNCHANGED <<store, env, monitor, eventColumns, saving, savePc, toInsert, saves,
                   outcome, beforeSave, prevSaved, firstCreated>>

NextStore ==
    \/ Tick /\ NoHistory
    \/ SaveEventCalled
    \/ SaveEventRow
    \/ SaveEventDeleteArtists
    \/ SaveEventInsertArtist
    \/ SaveEventResolves
    \/ SaveEventRejects
    \/ MarkNotificationSentCalled
    \/ ReadEventArtists

SpecStore == Init /\ [][NextStore]_vars

\* The configuration as the process finds it: init() loads config.json once,
\* POST /api/artists appends to config.artists while checks may be in progress,
\* and the scheduled and the unselected on-demand checks read it.
ConfigShapes == {"valid", "noArtists", "noDateRangeDays", "negativeDateRangeDays"}

\* a dateRangeDays below zero, as config.json may hold it
NegativeDays == 0 - 3

\* EventMonitor.init of a restarted process: loadConfig reads an edited file
Restart ==
    /\ pc = "idle"
    /\ \E shape \in ConfigShapes :
          /\ configLoaded' = shape
          /\ configArtists' \in (IF shape = "noArtists"
                                 THEN {<<>>}
                                 ELSE {<<"a1">>, <<"a1", "a2">>})
          /\ configNames' = NamesOf(configArtists')
    /\ runError' = FALSE
    /\ UNCHANGED <<store, notificationService, today, params, fetchv, notifyv, pc, i,
                   allNewEvents, srcErr, history, asked, direct, other, call, served>>

\* a check is called and throws before its loop: config.artists.map on an
\* absent list, or toISOString on the Invalid Date that setDate(NaN) leaves
CheckRejectsAtEntry ==
    /\ pc = "idle"
    /\ runs < MaxRuns
    /\ configLoaded \in {"noArtists", "noDateRangeDays"}
    /\ runs' = runs + 1
    /\ runError' = TRUE
    /\ UNCHANGED <<store, env, mode, manualAll, artistIds, dateRange, notifAtStart, fetchv,
                   notifyv, pc, i, allNewEvents, srcErr, history, asked, direct, other,
                   configLoaded, call, served>>

\* a check is called with a negative dateRangeDays: getDateRange returns a
\* window that ends before it starts, and the loop is entered
BeginRunInverted(md) ==
    /\ pc = "idle"
    /\ runs < MaxRuns
    /\ configLoaded = "negativeDateRangeDays"
    /\ runs' = runs + 1
    /\ mode' = md
    /\ manualAll' = (md = "FORCE")
    /\ artistIds' = configArtists
    /\ dateRange' = [start |-> IF IncludePastDay THEN today - 1 ELSE today,
                     end |-> today + NegativeDays]
    /\ notifAtStart' = Len(notifications)
    /\ i' = 0
    /\ allNewEvents' = <<>>
    /\ srcErr' = FALSE
    /\ sendCalls' = 0
    /\ sendResult' = "none"
    /\ sentBatch' = <<>>
    /\ markFailed' = FALSE
    /\ m' = 1
    /\ ResetFetch
    /\ pc' = "artist"
    /\ UNCHANGED <<store, env>>

\* a check is entered: the error of the check before is history
CheckEntered ==
    /\ runError' = FALSE
    /\ UNCHANGED <<history, asked, direct, other, configLoaded, call, served>>

\* (mutant) the check in progress iterates over the list that was appended to
PostArtistIntoRun ==
    /\ configLoaded # "noArtists"
    /\ \E id \in ArtistIds \ Range(configArtists) :
          /\ configArtists' = Append(configArtists, id)
          /\ configNames' = Append(configNames, NameOf[id])
          /\ artistIds' = (IF pc # "idle" THEN Append(artistIds, id) ELSE artistIds)
    /\ UNCHANGED <<store, notificationService, today, mode, manualAll, dateRange, runs,
                   notifAtStart, fetchv, notifyv, pc, i, allNewEvents, srcErr, history,
                   asked, direct, aside>>

\* POST /api/artists with an id and a name that config.artists does not hold
PostArtist ==
    /\ configLoaded # "noArtists"
    /\ \E id \in ArtistIds \ Range(configArtists) :
          /\ configArtists' = Append(configArtists, id)
          /\ configNames' = Append(configNames, NameOf[id])
    /\ UNCHANGED <<store, notificationService, today, params, fetchv, notifyv, pc, i,
                   allNewEvents, srcErr, history, asked, direct, aside>>

NextConfig ==
    \/ Restart
    \/ PostArtist
    \/ CheckRejectsAtEntry
    \/ BeginRunInverted("NORMAL") /\ CheckEntered
    \/ BeginRunInverted("FORCE") /\ CheckEntered
    \/ checkForNewEvents /\ configLoaded = "valid" /\ CheckEntered
    \/ checkForNewEventsManual /\ configLoaded = "valid" /\ CheckEntered
    \/ NewEventFetcher /\ NoHistory
    \/ NewEventFetcherThrows /\ NoHistory
    \/ GetEventsPage /\ NoHistory
    \/ GetEventsEmpty /\ NoHistory
    \/ GetEventsError /\ NoHistory
    \/ SaveEvent /\ NoHistory
    \/ SaveEventThrows /\ NoHistory
    \/ QueryNewEvents /\ NoHistory
    \/ QueryNewEventsThrows /\ NoHistory
    \/ SecondFetchPass /\ NoHistory
    \/ FilterByArea /\ NoHistory
    \/ InterArtistDelay /\ NoHistory
    \/ SendBatchNotification /\ NoHistory
    \/ SendBatchNotificationThrows /\ NoHistory
    \/ NoNotification /\ NoHistory
    \/ MarkNotificationSent /\ NoHistory
    \/ MarkNotificationSentThrows /\ NoHistory
    \/ MarkingDone /\ NoHistory
    \/ Return /\ NoHistory

SpecConfig == Init /\ [][NextConfig]_vars

\* Two checks in progress at once: the cron callback and the handlers of
\* POST /api/check-events call the same EventMonitor without a lock, and a
\* check yields at each of its awaits. The check whose locals are in the
\* variables runs until it is suspended and the other one is resumed. The
\* steps between two Store calls of a check (requests, sleeps, the send) touch
\* nothing the other check reads, so it is enough to resume the other check
\* while this one waits for a Store call, or has not begun, or is at its end.
Locals ==
    [pc |-> pc, mode |-> mode, manualAll |-> manualAll, artistIds |-> artistIds,
     dateRange |-> dateRange, notifAtStart |-> notifAtStart, i |-> i,
     fetchPass |-> fetchPass, pageNumber |-> pageNumber, fetched |-> fetched, k |-> k,
     sinceRequest |-> sinceRequest, allNewEvents |-> allNewEvents, m |-> m,
     srcErr |-> srcErr, sendCalls |-> sendCalls, sendResult |-> sendResult,
     sentBatch |-> sentBatch, markFailed |-> markFailed]

\* the event loop resumes the other check (or lets a handler start one)
Switch ==
    /\ pc # "idle" \/ other.pc # "idle"
    /\ pc \in {"idle", "save", "mark", "done"}
    /\ other' = Locals
    /\ pc' = other.pc
    /\ mode' = other.mode
    /\ manualAll' = other.manualAll
    /\ artistIds' = other.artistIds
    /\ dateRange' = other.dateRange
    /\ notifAtStart' = other.notifAtStart
    /\ i' = other.i
    /\ fetchPass' = other.fetchPass
    /\ pageNumber' = other.pageNumber
    /\ fetched' = other.fetched
    /\ k' = other.k
    /\ sinceRequest' = other.sinceRequest
    /\ allNewEvents' = other.allNewEvents
    /\ m' = other.m
    /\ srcErr' = other.srcErr
    /\ sendCalls' = other.sendCalls
    /\ sendResult' = other.sendResult
    /\ sentBatch' = other.sentBatch
    /\ markFailed' = other.markFailed
    /\ UNCHANGED <<store, env, runs, history, asked, direct, configLoaded, runError, call,
                   served>>

NextOverlap ==
    \/ Switch
    \/ checkForNewEvents /\ NoHistory
    \/ NewEventFetcher /\ NoHistory
    \/ GetEventsPage /\ pageNumber <= OverlapPages /\ NoHistory
    \/ GetEventsEmpty /\ NoHistory
    \/ SaveEvent /\ NoHistory
    \/ QueryNewEvents /\ NoHistory
    \/ InterArtistDelay /\ NoHistory
    \/ SendBatchNotification /\ NoHistory
    \/ NoNotification /\ NoHistory
    \/ MarkNotificationSent /\ NoHistory
    \/ MarkingDone /\ NoHistory
    \/ Return /\ NoHistory

SpecOverlap == Init /\ [][NextOverlap]_vars

\* One call of fetchAllEvents or of fetchEventsWithPageLimit(maxPages) on its
\* own, against a Source that holds some pages of records and may fail one
\* request; getEvents turns the failure into [].
Pages == {<<"e1">>, <<"e2">>, <<"e1", "e2">>, <<"e2", "e1">>}

Listings == UNION {[1..n -> Pages] : n \in 0..MaxListing}

RECURSIVE ConcatPages(_, _)
\* the first n pages, one after the other
ConcatPages(pages, n) ==
    IF n = 0 THEN <<>> ELSE ConcatPages(pages, n - 1) \o pages[n]

\* what getEvents(p) returns
getEvents(c, p) ==
    IF c.failsAt = p THEN <<>>
    ELSE IF p <= Len(c.listing) THEN c.listing[p]
    ELSE <<>>

\* (mutant) fetchAllEvents stops at a page count as well
LoopConditionCapped(c) == c.pageNumber <= c.maxPages

\* while (true) / while (pageNumber <= maxPages)
LoopCondition(c) ==
    IF c.method = "fetchAllEvents" THEN TRUE ELSE c.pageNumber <= c.maxPages

rest == <<store, env, params, fetchv, notifyv, pc, i, allNewEvents, srcErr, history, asked,
          direct, other, configLoaded, runError, served>>

FetchCalled ==
    /\ call.state = "none"
    /\ \E l \in Listings, f \in 0..MaxListing,
          meth \in {"fetchAllEvents", "fetchEventsWithPageLimit"} :
       \E limit \in (IF meth = "fetchAllEvents" THEN {0} ELSE 0..MaxLimit) :
          call' = [method |-> meth, listing |-> l, failsAt |-> f, maxPages |-> limit,
                   pageNumber |-> 1, allEvents |-> <<>>, requested |-> <<>>,
                   state |-> "loop"]
    /\ UNCHANGED rest

\* getEvents returned records: push, pageNumber++
CallGetsPage ==
    /\ call.state = "loop"
    /\ LoopCondition(call)
    /\ getEvents(call, call.pageNumber) # <<>>
    /\ call' = [call EXCEPT !.requested = Append(@, call.pageNumber),
                            !.allEvents = @ \o getEvents(call, call.pageNumber),
                            !.pageNumber = @ + 1,
                            !.state = "sleep"]
    /\ UNCHANGED rest

\* await this.sleep(DELAY)
CallSleeps ==
    /\ call.state = "sleep"
    /\ call' = [call EXCEPT !.state = "loop"]
    /\ UNCHANGED rest

\* getEvents returned []: break, return allEvents
CallGetsEmpty ==
    /\ call.state = "loop"
    /\ LoopCondition(call)
    /\ getEvents(call, call.pageNumber) = <<>>
    /\ call' = [call EXCEPT !.requested = Append(@, call.pageNumber),
                            !.state = "returned"]
    /\ UNCHANGED rest

\* the loop condition fails: return allEvents
CallLimitReached ==
    /\ call.state = "loop"
    /\ ~LoopCondition(call)
    /\ call' = [call EXCEPT !.state = "returned"]
    /\ UNCHANGED rest

NextFetch ==
    \/ FetchCalled
    \/ CallGetsPage
    \/ CallSleeps
    \/ CallGetsEmpty
    \/ CallLimitReached

SpecFetch == Init /\ [][NextFetch]_vars

\* One call of the NotificationService on its own: sendBatchNotification with
\* any list of events, or sendEventNotification with one event. push.send
\* hands the message to Pushover and calls back with an error or a result.
MaxSends == 2         \* calls of the NotificationService in one behaviour
MaxBatch == 3         \* longest list handed to sendBatchNotification

NormalPriority == 0

BatchPriority == 1

Batches == UNION {[1..n -> EventIds] : n \in 0..MaxBatch}

others == <<store, env, params, fetchv, notifyv, pc, i, allNewEvents, srcErr, history, asked,
            direct, other, configLoaded, runError, call, listed, artistPosts>>

\* sendBatchNotification(events) or sendEventNotification(event) is called
NotifierCalled ==
    /\ sending.state \in {"none", "returned"}
    /\ sending.calls < MaxSends
    /\ \/ \E evs \in Batches :
             sending' = [method |-> "sendBatchNotification", events |-> evs,
                         state |-> "called", sends |-> <<>>, callback |-> "none",
                         outcome |-> "none", calls |-> sending.calls + 1]
       \/ \E e \in EventIds :
             sending' = [method |-> "sendEventNotification", events |-> <<e>>,
                         state |-> "called", sends |-> <<>>, callback |-> "none",
                         outcome |-> "none", calls |-> sending.calls + 1]
    /\ UNCHANGED others

\* if (events.length === 0) return
BatchOfNoneReturns ==
    /\ sending.state = "called"
    /\ sending.method = "sendBatchNotification"
    /\ Len(sending.events) = 0
    /\ sending' = [sending EXCEPT !.state = "returned", !.outcome = "resolved"]
    /\ UNCHANGED others

\* sendNotification(title, message, priority): this.push.send(msg, callback)
PushSend ==
    /\ sending.state = "called"
    /\ sending.method = "sendBatchNotification" => Len(sending.events) > 0
    /\ LET msg == [priority |-> IF sending.method = "sendBatchNotification"
                                THEN BatchPriority ELSE NormalPriority,
                   count |-> Len(sending.events)]
       IN sending' = [sending EXCEPT !.state = "sent", !.sends = Append(@, msg)]
    /\ UNCHANGED others

\* the callback gets a result: resolve(result)
PushCallbackResult ==
    /\ sending.state = "sent"
    /\ sending' = [sending EXCEPT !.state = "returned", !.callback = "result",
                                  !.outcome = "resolved"]
    /\ UNCHANGED others

\* (mutant) a send that failed is made again
PushCallbackErrorRetries ==
    /\ sending.state = "sent"
    /\ sending' = [sending EXCEPT !.state = "called", !.callback = "error"]
    /\ UNCHANGED others

\* the callback gets an error: reject(err)
PushCallbackError ==
    /\ sending.state = "sent"
    /\ sending' = [sending EXCEPT !.state = "returned", !.callback = "error",
                                  !.outcome = "rejected"]
    /\ UNCHANGED others

NextNotify ==
    \/ NotifierCalled
    \/ BatchOfNoneReturns
    \/ PushSend
    \/ PushCallbackResult
    \/ PushCallbackError

SpecNotify == Init /\ [][NextNotify]_vars

\* The checks of POST /api/check-events and POST /api/check-events-force with
\* selectedArtists in the body, on a process whose config.json lists a1 alone
\* or a1 and a2: the handlers pass the body's list on as it is.
RestartValid ==
    /\ Restart
    /\ configLoaded' = "valid"

NextSelected ==
    \/ RestartValid
    \/ checkForNewEventsWithArtists /\ NoHistory
    \/ checkForNewEventsManualWithArtists /\ NoHistory
    \/ NewEventFetcher /\ NoHistory
    \/ NewEventFetcherThrows /\ NoHistory
    \/ GetEventsPage /\ NoHistory
    \/ GetEventsEmpty /\ NoHistory
    \/ GetEventsError /\ NoHistory
    \/ SaveEvent /\ NoHistory
    \/ SaveEventThrows /\ NoHistory
    \/ QueryNewEvents /\ NoHistory
    \/ QueryNewEventsThrows /\ NoHistory
    \/ FilterByArea /\ NoHistory
    \/ InterArtistDelay /\ NoHistory
    \/ SendBatchNotification /\ NoHistory
    \/ SendBatchNotificationThrows /\ NoHistory
    \/ NoNotification /\ NoHistory
    \/ MarkNotificationSent /\ NoHistory
    \/ MarkNotificationSentThrows /\ NoHistory
    \/ MarkingDone /\ NoHistory
    \/ Return /\ NoHistory

SpecSelected == Init /\ [][NextSelected]_vars

\* One request GET /api/events?start=..&end=..[&artists=..] on an arbitrary
\* store. The request is held in query: startDate, endDate, and the ids of the
\* artists parameter (none when the parameter is absent or empty).
unlisted == <<store, env, params, fetchv, notifyv, pc, i, allNewEvents, srcErr, history, asked,
              direct, other, configLoaded, runError, call, sending, artistPosts>>

\* if (artists): this.db.getEventsByDateRangeAndArtists(...), a method the
\* Database does not have; the TypeError is caught and answered with 500
GetEventsWithArtists ==
    /\ listed.status = 0
    /\ query.ids # {}
    /\ listed' = [status |-> 500, body |-> {}, storeFailed |-> FALSE]
    /\ UNCHANGED unlisted

\* else: res.json(await this.db.getEventsByDateRange(startDate, endDate))
GetEventsInRange ==
    /\ listed.status = 0
    /\ query.ids = {}
    /\ listed' = [status |-> 200,
                  body |-> getEventsByDateRange(events, query.startDate, query.endDate),
                  storeFailed |-> FALSE]
    /\ UNCHANGED unlisted

\* getEventsByDateRange rejects: res.status(500)
GetEventsStoreFails ==
    /\ listed.status = 0
    /\ query.ids = {}
    /\ listed' = [status |-> 500, body |-> {}, storeFailed |-> TRUE]
    /\ UNCHANGED unlisted

NextEvents ==
    \/ GetEventsWithArtists
    \/ GetEventsInRange
    \/ GetEventsStoreFails

SpecEvents == InitQuery /\ [][NextEvents]_vars

\* Checks that run to their end: the event loop resumes a check whenever the
\* call it awaits has settled, every call settles (by returning or failing),
\* and the Source's listing for an artist ends after at most MaxPages pages.
LiveRuns == 1         \* checks started in one behaviour of SpecLive

\* a step of the check in progress
RunStep ==
    \/ NewEventFetcher /\ NoHistory
    \/ NewEventFetcherThrows /\ NoHistory
    \/ GetEventsPage /\ NoHistory
    \/ GetEventsEmpty /\ NoHistory
    \/ GetEventsError /\ NoHistory
    \/ SaveEvent /\ NoHistory
    \/ SaveEventThrows /\ NoHistory
    \/ QueryNewEvents /\ NoHistory
    \/ QueryNewEventsThrows /\ NoHistory
    \/ SecondFetchPass /\ NoHistory
    \/ FilterByArea /\ NoHistory
    \/ InterArtistDelay /\ NoHistory
    \/ SendBatchNotification /\ NoHistory
    \/ SendBatchNotificationThrows /\ NoHistory
    \/ NoNotification /\ NoHistory
    \/ MarkNotificationSent /\ NoHistory
    \/ MarkNotificationSentThrows /\ NoHistory
    \/ MarkingDone /\ NoHistory
    \/ Return /\ NoHistory

NextLive ==
    \/ checkForNewEvents /\ runs < LiveRuns /\ NoHistory
    \/ checkForNewEventsManual /\ runs < LiveRuns /\ NoHistory
    \/ checkForNewEventsWithArtists /\ runs < LiveRuns /\ NoHistory
    \/ checkForNewEventsManualWithArtists /\ runs < LiveRuns /\ NoHistory
    \/ RunStep

SpecLive == Init /\ [][NextLive]_vars /\ WF_vars(RunStep)

\* Requests POST /api/artists, also with their handlers interleaved: a
\* handler runs from its entry to `await fs.promises.writeFile` without
\* yielding, and from the settling of writeFile to its response.
MaxPosts == 3         \* requests POST /api/artists in one behaviour

\* req.body.id and req.body.name; "" stands for a missing or empty field
PostedIds == {"", "a1", "a2", "a3"}

PostedNames == {"", "Ann", "ann", "Bob", "bob", "Cy"}

\* name.toLowerCase()
toLowerCase ==
    [n \in PostedNames |-> IF n = "Ann" THEN "ann" ELSE IF n = "Bob" THEN "bob"
                           ELSE IF n = "Cy" THEN "cy" ELSE n]

\* (mutant) the names are compared as they are written
existingArtistExactName(ids, names, id, name) ==
    {j \in 1..Len(ids) : ids[j] = id \/ names[j] = name}

\* config.artists.find(artist => artist.id === id ||
\*     artist.name.toLowerCase() === name.toLowerCase())
existingArtist(ids, names, id, name) ==
    {j \in 1..Len(ids) : ids[j] = id \/ toLowerCase[names[j]] = toLowerCase[name]}

unposted == <<store, notificationService, today, params, fetchv, notifyv, pc, i, allNewEvents,
              srcErr, history, asked, direct, other, configLoaded, runError, call, sending,
              listed>>

\* the process starts with a config.json that lists a1, or a1 and a2
ArtistsLoaded ==
    /\ artistPosts = NoPosts
    /\ RestartValid

\* if (!name || !id) return res.status(400)
PostArtistInvalid ==
    /\ artistPosts.requests < MaxPosts
    /\ \E id \in PostedIds, name \in PostedNames :
          /\ name = "" \/ id = ""
          /\ artistPosts' = [artistPosts EXCEPT
                                !.reply = [status |-> 400, id |-> id, name |-> name,
                                           before |-> Len(configArtists)],
                                !.requests = @ + 1]
    /\ UNCHANGED <<configArtists, configNames, unposted>>

\* if (existingArtist) return res.status(400)
PostArtistExists ==
    /\ artistPosts.requests < MaxPosts
    /\ \E id \in PostedIds \ {""}, name \in PostedNames \ {""} :
          /\ existingArtist(configArtists, configNames, id, name) # {}
          /\ artistPosts' = [artistPosts EXCEPT
                                !.reply = [status |-> 400, id |-> id, name |-> name,
                                           before |-> Len(configArtists)],
                                !.requests = @ + 1]
    /\ UNCHANGED <<configArtists, configNames, unposted>>

\* this.monitor.config.artists.push(newArtist); await fs.promises.writeFile(...)
PostArtistPushed ==
    /\ artistPosts.requests < MaxPosts
    /\ \E id \in PostedIds \ {""}, name \in PostedNames \ {""} :
          /\ existingArtist(configArtists, configNames, id, name) = {}
          /\ configArtists' = Append(configArtists, id)
          /\ configNames' = Append(configNames, name)
          /\ artistPosts' = [artistPosts EXCEPT
                                !.inFlight = @ \cup {[id |-> id, name |-> name,
                                                      before |-> Len(configArtists)]},
                                !.requests = @ + 1]
    /\ UNCHANGED unposted

\* writeFile resolves: res.json({message: 'Artist added successfully', ...})
PostArtistWritten ==
    /\ \E h \in artistPosts.inFlight :
          artistPosts' = [artistPosts EXCEPT
                             !.inFlight = @ \ {h},
                             !.reply = [status |-> 200, id |-> h.id, name |-> h.name,
                                        before |-> h.before]]
    /\ UNCHANGED <<configArtists, configNames, unposted>>

\* writeFile rejects: catch, res.status(500)
PostArtistWriteFails ==
    /\ \E h \in artistPosts.inFlight :
          artistPosts' = [artistPosts EXCEPT
                             !.inFlight = @ \ {h},
                             !.reply = [status |-> 500, id |-> h.id, name |-> h.name,
                                        before |-> h.before]]
    /\ UNCHANGED <<configArtists, configNames, unposted>>

NextArtists ==
    \/ ArtistsLoaded
    \/ PostArtistInvalid
    \/ PostArtistExists
    \/ PostArtistPushed
    \/ PostArtistWritten
    \/ PostArtistWriteFails

SpecArtists == Init /\ [][NextArtists]_vars

TypeOK ==
    /\ pc \in {"idle", "artist", "fetch", "save", "delay", "mark", "done"}
    /\ mode \in {"NORMAL", "FORCE"}
    /\ runs \in 0..MaxRuns
    /\ \A e1, e2 \in events : e1.id = e2.id => e1 = e2

\* ------------------------------------------------------------------ claims

\* C1 (as claimed): as long as only NORMAL runs have written Notification rows,
\* every event id is referenced by at most one row.
AtMostOneRowPerEvent ==
    (\A j \in 1..Len(notifications) : notifications[j].message = BatchReason)
        => \A e \in EventIds :
              Cardinality({j \in 1..Len(notifications) : notifications[j].event_id = e}) <= 1

\* C2: a Notification row is written only after sendBatchNotification of the
\* same run has resolved, and a run whose dispatch failed has written no row.
NoRowWithoutTransportSuccess ==
    [][ /\ notifications' # notifications => sendResult = "ok" /\ sendResult' = "ok"
        /\ sendResult' = "failed" => Len(notifications') = notifAtStart' ]_vars

\* C2: a run ended by the rejection of a two-event batch
FailedDispatchOfTwo ==
    /\ pc = "done"
    /\ sendResult = "failed"
    /\ Len(sentBatch) = 2

\* C3 (as claimed): when the dispatch succeeded, every event of the collection
\* has at the end of the run a row written by this run with the mode's reason.
EveryBatchEventMarked ==
    (pc = "done" /\ sendResult = "ok")
        => \A e \in Range(sentBatch) :
              \E j \in (notifAtStart + 1)..Len(notifications) :
                 /\ notifications[j].event_id = e
                 /\ notifications[j].message =
                       (IF mode = "NORMAL" THEN BatchReason ELSE ManualReason)

\* C3 (amended): after a successful dispatch the rows written by the run are,
\* in order, the first m - 1 entries of the collection, each with the mode's
\* reason; they are the whole collection when the run ends and no
\* markNotificationSent has rejected.
MarkedPrefixOfBatch ==
    (pc \in {"mark", "done"} /\ sendResult = "ok")
        => /\ Len(notifications) = notifAtStart + m - 1
           /\ \A j \in 1..(m - 1) :
                 notifications[notifAtStart + j] =
                    [event_id |-> sentBatch[j],
                     message |-> IF mode = "NORMAL" THEN BatchReason ELSE ManualReason]
           /\ (pc = "done" /\ ~markFailed) => m - 1 = Len(sentBatch)

\* C3: a FORCE run that sent two events and marked only the first
PartlyMarkedBatch ==
    /\ pc = "done"
    /\ mode = "FORCE"
    /\ sendResult = "ok"
    /\ markFailed
    /\ Len(sentBatch) = 2
    /\ m = 2

\* C4: for every store, every list of artist ids and every window, an event
\* id is in the result of getNewEventsForArtists iff the event is stored with
\* a date inside the inclusive window, is associated with one of the queried
\* artists, and no Notification row references it.
UnnotifiedForArtistsExact ==
    answered =>
        \A e \in EventIds :
            (\E j \in 1..Len(answer) : answer[j].id = e)
                <=> /\ \E row \in events :
                          /\ row.id = e
                          /\ query.startDate <= row.date
                          /\ row.date <= query.endDate
                    /\ \E x \in query.ids :
                          [event_id |-> e, artist_id |-> x] \in event_artists
                    /\ ~hasNotificationBeenSent(notifications, e)

\* C4: e1 and e2 are both stored for a2 with dates on the two ends of the
\* window, e1 has a Notification row, and the query for a2 returned e2 alone
QueryReturnedOnlyUnnotified ==
    /\ answered
    /\ query.ids = {"a2"}
    /\ [id |-> "e1", date |-> query.startDate] \in events
    /\ [id |-> "e2", date |-> query.endDate] \in events
    /\ [event_id |-> "e1", artist_id |-> "a2"] \in event_artists
    /\ [event_id |-> "e2", artist_id |-> "a2"] \in event_artists
    /\ hasNotificationBeenSent(notifications, "e1")
    /\ Ids(answer) = <<"e2">>

\* C5: a NORMAL run for one artist on an empty store, to which the Source
\* returns two events of that artist inside the window, calls the notifier
\* once with exactly these two events, leaves each with one Notification row
\* and leaves nothing for getNewEventsForArtists to return for that artist and
\* window; and a NORMAL run for the same artist on the same day to which the
\* Source returns what it returned to the run before sends nothing.
RepeatedRunSendsNothing ==
    /\ ( /\ pc = "done"
         /\ runs = 1
         /\ Len(artistIds) = 1
         /\ notificationService
         /\ Len(sourceOut) = 2
         /\ \A j \in 1..Len(sourceOut) :
               /\ artistIds[1] \in sourceOut[j].artists
               /\ dateRange.start <= sourceOut[j].date
               /\ sourceOut[j].date <= dateRange.end )
       => /\ sendCalls = 1
          /\ Len(sentBatch) = 2
          /\ Range(sentBatch) = {sourceOut[1].id, sourceOut[2].id}
          /\ \A e \in Range(sentBatch) :
                Cardinality({j \in 1..Len(notifications) :
                                notifications[j].event_id = e}) = 1
          /\ getNewEventsForArtists(events, event_artists, notifications,
                                    {artistIds[1]}, dateRange.start, dateRange.end)
                = {<<>>}
    /\ ( /\ pc = "done"
         /\ prevSel # <<>>
         /\ artistIds = prevSel
         /\ sourceOut = prevOut )
       => sendCalls = 0

\* C5: the second run has ended: same artist, same day, the same two events
\* from the Source, both notified by the first run, and nothing was sent
SecondRunAfterBatchOfTwo ==
    /\ pc = "done"
    /\ runs = 2
    /\ artistIds = prevSel
    /\ Len(artistIds) = 1
    /\ sourceOut = prevOut
    /\ Len(sourceOut) = 2
    /\ \A j \in 1..Len(sourceOut) : artistIds[1] \in sourceOut[j].artists
    /\ Len(notifications) = 2
    /\ notificationService
    /\ sendCalls = 0

\* C6 (as claimed): when a NORMAL run ends after its dispatch failed, every
\* event id of the batch is returned by getNewEventsForArtists for the run's
\* artists and window.
FailedBatchStillUnnotified ==
    (pc = "done" /\ mode = "NORMAL" /\ sendResult = "failed")
        => \A e \in Range(sentBatch) :
           \A result \in getNewEventsForArtists(events, event_artists, notifications,
                            Range(artistIds), dateRange.start, dateRange.end) :
              \E j \in 1..Len(result) : result[j].id = e

FailedFetchContributesNothing ==
    [][ ((srcErr /\ ~srcErr') \/ SaveEventThrows \/ NewEventFetcherThrows)
            => /\ allNewEvents' = allNewEvents
               /\ pc' \in {"artist", "delay"}
      ]_vars

\* C11 (as claimed): a page request that fails reaches the Monitor as a
\* failure: the artist step leaves its try block for the catch, as it does
\* for every other error, instead of going on as after an empty page.
FailedPageRequestIsCaught ==
    [][ GetEventsError => pc' = "artist" /\ i' = i + 1 ]_vars

\* C12 (as claimed): after any sequence of upserts the stored created_at of
\* every event is the created_at of its first insertion.
CreatedAtNeverChanges ==
    \A e \in EventIds :
        HasRow(events, e) => eventColumns[e].created_at = firstCreated[e]

\* C13 (as claimed): when saveEvent has resolved, getEventsByDateRange over a
\* window that covers the record's date returns the event's row with the
\* record's date and title; and when the call before it resolved with the
\* same record, the tables are what that call left, except for updated_at.
UpsertRoundTrip ==
    outcome = "resolved" =>
        /\ \E row \in getEventsByDateRange(events, saving.date, saving.date) :
              /\ row.id = saving.id
              /\ row.date = saving.date
              /\ eventColumns[row.id].title = saving.title
        /\ prevSaved = saving =>
              /\ events = beforeSave.events
              /\ event_artists = beforeSave.event_artists
              /\ \A e \in EventIds :
                    /\ eventColumns[e].title = beforeSave.eventColumns[e].title
                    /\ eventColumns[e].created_at = beforeSave.eventColumns[e].created_at

ArtistSetFullyReplaced ==
    outcome = "resolved" =>
        {a.artist_id : a \in {x \in event_artists : x.event_id = saving.id}}
            = saving.artists

\* C16 (as claimed): a read of an event's artist list that comes after the
\* DELETE of a saveEvent call for that event and before the call has settled
\* returns the whole list of the record, never an empty or partly
\* re-inserted one.
NoHalfReplacedArtistList ==
    observed.afterDelete => observed.artists = observed.expected

\* C17 (as claimed): a saveEvent call that rejects leaves the event's row,
\* its other columns and the event_artists rows as they were when the call
\* began.
RejectedUpsertChangesNothing ==
    outcome = "rejected" =>
        /\ events = beforeSave.events
        /\ event_artists = beforeSave.event_artists
        /\ eventColumns = beforeSave.eventColumns

DelayBetweenArtists ==
    [][ /\ (pc # "idle" /\ i' = i + 1 /\ i' < Len(artistIds')) => InterArtistDelay
        /\ InterArtistDelay => i' < Len(artistIds')
      ]_vars

\* C20 (as claimed): no page request of an artist step follows the page
\* request before it without a sleep in between, within one fetchAllEvents
\* and from one fetch pass of the manual check to the next.
NoBackToBackRequests ==
    [][ (GetEventsPage \/ GetEventsEmpty \/ GetEventsError)
            => sinceRequest # "request" ]_vars

\* C21 (as claimed): when the artist loop of a FORCE run is over, the run's
\* collection holds exactly the stored events of the configured area whose
\* date is inside the run's window and that are associated with one of the
\* selected artists, whether or not a Notification row references them.
ForceBatchIsWindowOfSelection ==
    (pc = "artist" /\ i = Len(artistIds) /\ mode = "FORCE")
        => Range(allNewEvents) =
              {row.id : row \in
                 {r \in getEventsByDateRange(events, dateRange.start, dateRange.end) :
                     /\ AreaOf[r.id] = LocationAreaId
                     /\ \E a \in Range(artistIds) :
                           [event_id |-> r.id, artist_id |-> a] \in event_artists}}

SelectionResolvedAtEntry ==
    [][ /\ (pc # "idle" /\ pc' # "idle") => artistIds' = artistIds
        /\ (pc = "idle" /\ pc' # "idle") => artistIds' = configArtists
        /\ (pc = "artist" /\ pc' \in {"mark", "done"}) => i = Len(artistIds)
      ]_vars

\* C23: a check over the configured artists that was entered when a1 was the
\* only one has collected an event for a1 and reached its end after a1, and
\* config.artists holds a2 as well
ArtistAddedDuringRun ==
    /\ pc = "done"
    /\ configLoaded = "valid"
    /\ artistIds = <<"a1">>
    /\ i = 1
    /\ allNewEvents # <<>>
    /\ configArtists = <<"a1", "a2">>

\* C26 (as claimed): with a configuration that has no artist list or no
\* usable window, no check gets past its entry: none enters the artist loop,
\* and so none requests a page, upserts or sends.
InvalidConfigStopsAtEntry ==
    [][ configLoaded # "valid"
            => /\ pc' = "idle"
               /\ events' = events
               /\ event_artists' = event_artists
               /\ sendCalls' = sendCalls ]_vars

\* C24: a check can be entered while another one is in progress, and while
\* two checks are in progress neither waits for the other: a check whose loop
\* is over sends its whole collection, and each step of its mark loop appends
\* a row for the next event of the collection, whatever the other check has
\* collected, sent or marked in the meantime.
NoExclusionBetweenChecks ==
    [][ other' = other =>
          /\ (pc = "idle" /\ other.pc # "idle" /\ runs < MaxRuns)
                => ENABLED checkForNewEvents
          /\ (pc = "artist" /\ pc' = "mark")
                => sentBatch' = allNewEvents /\ sendCalls' = 1
          /\ (pc = "mark" /\ m' = m + 1)
                => notifications' =
                      Append(notifications,
                             [event_id |-> allNewEvents[m], message |-> ReasonOf(mode)])
      ]_vars

\* C24: two checks that both began before any Notification row existed are
\* both at their end, each after one successful dispatch, an event is in both
\* batches, and two rows reference it
BothChecksSentSameEvent ==
    /\ pc = "done"
    /\ other.pc = "done"
    /\ notifAtStart = 0
    /\ other.notifAtStart = 0
    /\ sendCalls = 1 /\ sendResult = "ok"
    /\ other.sendCalls = 1 /\ other.sendResult = "ok"
    /\ \E e \in Range(sentBatch) \cap Range(other.sentBatch) :
          Cardinality({j \in 1..Len(notifications) : notifications[j].event_id = e}) = 2

\* C25 (as claimed): every event of a collection that was handed to
\* sendBatchNotification has its venue in the configured location area.
BatchInConfiguredArea ==
    sendCalls > 0 => \A e \in Range(sentBatch) : AreaOf[e] = LocationAreaId

\* C27 (as claimed): when the dedup query of a check rejects, or a
\* markNotificationSent after the dispatch, the check rejects to its caller,
\* and the rows its upserts wrote stay as they are.
StoreFailureIsRunError ==
    [][ (QueryNewEventsThrows \/ MarkNotificationSentThrows)
            => /\ runError'
               /\ events' = events
               /\ event_artists' = event_artists ]_vars

\* C28: the pages are requested in the order 1, 2, 3, ...; a call of
\* fetchAllEvents returns only after a request for which getEvents returned
\* no records, and every request before that one came back with records; fetchEventsWithPageLimit
\* makes at most maxPages requests; and the list returned is the pages that
\* came back with records, one after the other in the order of the requests.
PagesInOrderUntilEmpty ==
    LET Got(p) == getEvents(call, p)
        tail == Len(call.requested)
        full == {p \in 1..tail : Got(p) # <<>>}
    IN /\ \A p \in 1..tail : call.requested[p] = p
       /\ \A p \in 1..(tail - 1) : Got(p) # <<>>
       /\ call.method = "fetchEventsWithPageLimit" => tail <= call.maxPages
       /\ call.state = "returned" =>
             /\ call.method = "fetchAllEvents" => (tail >= 1 /\ Got(tail) = <<>>)
             /\ call.allEvents = ConcatPages(call.listing, Cardinality(full))

\* C28: fetchAllEvents has returned after four requests, the first three of
\* which came back with records, more than any maxPages of the limited calls
FetchedPastEveryLimit ==
    /\ call.state = "returned"
    /\ call.method = "fetchAllEvents"
    /\ call.requested = <<1, 2, 3, 4>>
    /\ call.pageNumber > MaxLimit
    /\ call.allEvents = call.listing[1] \o call.listing[2] \o call.listing[3]
    /\ Len(call.allEvents) > 3

OneQueryPerArtist ==
    [][ ( /\ mode = "NORMAL"
          /\ pc \in {"artist", "fetch", "save"}
          /\ i < Len(artistIds)
          /\ i' = i + 1 \/ pc' = "delay" )
        => \E newEvents \in getNewEventsForArtists(events, event_artists, notifications,
                                {artistId}, dateRange.start, dateRange.end) :
              allNewEvents' = allNewEvents \o Ids(newEvents) ]_vars

\* C30 (amended): in a NORMAL check the collection changes only at the end of
\* an artist's save loop, by a step that appends the result of the dedup query
\* for that one artist and the check's window, evaluated on the Store as it is
\* then, and that ends the artist's step; a step that goes on to the delay has
\* appended that result. A step that threw has appended nothing.
QueryAppendedAfterUpserts ==
    [][ ( /\ mode = "NORMAL"
          /\ pc \notin {"idle", "done"}
          /\ pc' # "idle" )
        => /\ allNewEvents' # allNewEvents
                => /\ pc = "save"
                   /\ k > Len(fetched)
                   /\ i' = i + 1 \/ pc' = "delay"
           /\ (allNewEvents' # allNewEvents \/ (pc = "save" /\ pc' = "delay"))
                => \E newEvents \in getNewEventsForArtists(events, event_artists,
                                        notifications, {artistId},
                                        dateRange.start, dateRange.end) :
                      allNewEvents' = allNewEvents \o Ids(newEvents)
      ]_vars

\* C30: a NORMAL check over a2, a1 is at its notification step; a2's query
\* gave e2 and a1's query gave e1
CollectedInArtistOrder ==
    /\ pc = "artist"
    /\ mode = "NORMAL"
    /\ artistIds = <<"a2", "a1">>
    /\ i = 2
    /\ allNewEvents = <<"e2", "e1">>
    /\ [event_id |-> "e2", artist_id |-> "a2"] \in event_artists
    /\ [event_id |-> "e1", artist_id |-> "a1"] \in event_artists

\* C31: within a check the artists are worked through one at a time. Every
\* page request is made by the step of the one artist the loop is at, while
\* the check waits for nothing else; a fetch in progress ends only in the save
\* loop of the same artist; a fetch begins only at the start of an artist's
\* step, or as the second pass of the manual check after the first pass's
\* records were saved; and the loop moves on to the next artist only when the
\* artist's step is over: after its query or filter (and the delay), or by a
\* throw of its fetcher, of an upsert or of its query.
OneArtistAtATime ==
    [][ /\ (GetEventsPage \/ GetEventsEmpty \/ GetEventsError)
              => pc = "fetch" /\ i < Len(artistIds) /\ i' = i
        /\ pc = "fetch" => pc' \in {"fetch", "save"} /\ i' = i
        /\ (pc # "fetch" /\ pc' = "fetch")
              => /\ i' = i
                 /\ \/ pc = "artist" /\ fetched = <<>> /\ pageNumber = 1
                    \/ pc = "save" /\ k > Len(fetched) /\ manualAll /\ fetchPass' = 2
        /\ (pc # "idle" /\ pc' # "idle" /\ i' # i)
              => /\ i' = i + 1
                 /\ pc' = "artist"
                 /\ fetched' = <<>> /\ pageNumber' = 1 /\ k' = 1
                 /\ \/ InterArtistDelay
                    \/ (QueryNewEvents \/ FilterByArea) /\ IsLastArtist
                    \/ NewEventFetcherThrows
                    \/ SaveEventThrows
                    \/ QueryNewEventsThrows
      ]_vars

\* C31: the check waits for the second page of its second artist, after the
\* first artist's step has put an event into the collection
SecondArtistFetchedAfterFirst ==
    /\ pc = "fetch"
    /\ Len(artistIds) = 2
    /\ i = 1
    /\ pageNumber = 2
    /\ Len(fetched) = 1
    /\ allNewEvents # <<>>

\* C32: a call of sendBatchNotification with no events makes no send and
\* returns; a call with events makes one send, with the batch priority, which
\* is above the priority of a single event's message, and resolves when the
\* send's callback got a result and rejects when it got an error; no call
\* makes a second send.
OneSendPerDispatch ==
    [][ /\ Len(sending'.sends) <= 1
        /\ (sending'.method = "sendBatchNotification" /\ sending'.events = <<>>)
              => sending'.sends = <<>>
        /\ (sending'.method = "sendBatchNotification" /\ sending'.state = "returned"
               /\ sending'.events # <<>>)
              => /\ Len(sending'.sends) = 1
                 /\ sending'.sends[1].priority = BatchPriority
                 /\ BatchPriority > NormalPriority
        /\ (sending.state = "sent" /\ sending' # sending)
              => /\ sending'.state = "returned"
                 /\ sending'.sends = sending.sends
                 /\ sending'.callback \in {"result", "error"}
                 /\ sending'.outcome = "resolved" <=> sending'.callback = "result"
                 /\ sending'.outcome = "rejected" <=> sending'.callback = "error"
      ]_vars

\* C32: sendBatchNotification was called with two events and has rejected
\* after its one send, with the batch priority, got an error
BatchRejectedAfterOneSend ==
    /\ sending.method = "sendBatchNotification"
    /\ Len(sending.events) = 2
    /\ sending.state = "returned"
    /\ sending.outcome = "rejected"
    /\ Len(sending.sends) = 1
    /\ sending.sends[1].priority = BatchPriority

\* C33 (as claimed): a check with selected artists requests pages, upserts
\* and queries only for artists that config.artists lists.
SelectedArtistsAreConfigured ==
    [][ (GetEventsPage \/ GetEventsEmpty \/ GetEventsError \/ SaveEvent \/ QueryNewEvents)
            => artistId \in Range(configArtists) ]_vars

\* C34: every Notification row references an event that has its row in the
\* events table, in every state of NORMAL and FORCE checks with failures of
\* the Source, the Store and the Transport.
NotificationsReferenceEvents ==
    \A j \in 1..Len(notifications) : HasRow(events, notifications[j].event_id)

\* C34: the second check, a FORCE check, has ended after a rejected mark; the
\* table holds a row of the NORMAL check before it and a row of this one, and
\* the check has upserted the event of the first row again
RowsOfBothModesAfterFailures ==
    /\ pc = "done"
    /\ runs = 2
    /\ mode = "FORCE"
    /\ markFailed
    /\ notifAtStart >= 1
    /\ Len(notifications) > notifAtStart
    /\ notifications[1].message = BatchReason
    /\ notifications[Len(notifications)].message = ManualReason
    /\ notifications[1].event_id \in Range(sentBatch)

\* C35 (as claimed): every request GET /api/events that the Store did not
\* fail is answered with status 200 and the stored events whose date is
\* inside the requested range, with or without the artists parameter.
EventsRequestAnswered ==
    (listed.status # 0 /\ ~listed.storeFailed)
        => /\ listed.status = 200
           /\ listed.body \subseteq
                 {e \in events : query.startDate <= e.date /\ e.date <= query.endDate}
           /\ query.ids = {} =>
                 listed.body =
                    {e \in events : query.startDate <= e.date /\ e.date <= query.endDate}

\* C36 (as claimed): the collection handed to sendBatchNotification holds no
\* event id twice, so that its length, the count in the title, is the number
\* of distinct events in it.
BatchHasNoDuplicates ==
    sendCalls > 0 => Len(sentBatch) = Cardinality(Range(sentBatch))

\* C37 (as claimed): a check of a monitor without a notification service
\* calls sendBatchNotification not at all and writes no Notification row, and
\* at the end of a NORMAL check every event of its collection is returned by
\* getNewEventsForArtists for the check's artists and window.
DisabledNotifierLeavesEventsNew ==
    ~notificationService =>
        /\ sendCalls = 0
        /\ pc # "idle" => Len(notifications) = notifAtStart
        /\ (pc = "done" /\ mode = "NORMAL")
              => \A e \in Range(allNewEvents) :
                    \E row \in NewEventRows(events, event_artists, notifications,
                                            Range(artistIds), dateRange.start,
                                            dateRange.end) : row.id = e

\* C38: every check that is entered returns to its caller, whatever the
\* artist list, the pages of the Source and the failures of the Source, the
\* Store and the Transport, as long as every call the check awaits settles
\* and the listing of each artist ends.
EveryCheckReturns ==
    (pc # "idle") ~> (pc = "idle")

\* C38: a check over two artists that fetched, upserted, sent and marked two
\* events has returned
CheckOfTwoArtistsReturned ==
    /\ pc = "idle"
    /\ runs = 1
    /\ Cardinality(events) = 2
    /\ [event_id |-> "e1", artist_id |-> "a1"] \in event_artists
    /\ [event_id |-> "e2", artist_id |-> "a2"] \in event_artists
    /\ Len(notifications) = 2

\* C39: however the handlers of POST /api/artists interleave, no two entries
\* of config.artists have the same id, and no two have names that are equal
\* when lower-cased.
ConfiguredArtistsAreUnique ==
    \A p, q \in 1..Len(configArtists) :
        p # q => /\ configArtists[p] # configArtists[q]
                 /\ toLowerCase[configNames[p]] # toLowerCase[configNames[q]]

\* C39: two handlers that appended an artist each are still waiting for
\* writeFile when a third request, with a new id and the name of one of the
\* two in another case, has been answered with 400
DuplicateNameRefusedMidWrite ==
    /\ Cardinality(artistPosts.inFlight) = 2
    /\ Len(configArtists) = 3
    /\ artistPosts.reply.status = 400
    /\ artistPosts.reply.id \notin Range(configArtists)
    /\ \E h \in artistPosts.inFlight :
          /\ h.name # artistPosts.reply.name
          /\ toLowerCase[h.name] = toLowerCase[artistPosts.reply.name]

\* C40 (as claimed): when a request POST /api/artists has been answered with
\* an error, config.artists holds no entry that the request appended.
ErrorLeavesArtistsUnchanged ==
    artistPosts.reply.status \in {400, 500}
        => ~\E j \in (artistPosts.reply.before + 1)..Len(configArtists) :
               /\ configArtists[j] = artistPosts.reply.id
               /\ configNames[j] = artistPosts.reply.name

====
